---- MODULE Spec2Model ----
(***************************************************************************)
(* Model of the configuration engine (app/config.py), of the database      *)
(* connection dispatcher (app/repository/connect.py), of the storage client*)
(* (app/services/blob_storage_client.py) and of the text detection pipeline*)
(* (app/services/text_detection/text_detection_service.py).                *)
(*                                                                         *)
(* Specifications:                                                         *)
(*   Spec         config = Config() over storage, database, symbol API and *)
(*                line detection inputs, and a second root validation      *)
(*   SpecSets     Config() with one set-valued field supplied              *)
(*   SpecConnect  config = Config(), then connect() calls in sequence      *)
(*   SpecThreads  config = Config(), then connect() calls of two threads   *)
(*   SpecStorage     one BlobStorageClient: init(), then uploads, downloads*)
(*                   and existence checks                                  *)
(*   SpecStorageEnv  the same, with buckets deleted in the storage service *)
(*   SpecPipeline    one run_inferencing call, stage by stage              *)
(*   SpecConvert     _convert_text_detection_to_text_details on a list of  *)
(*                   OCR results                                           *)
(*                                                                         *)
(* Python values are encoded as follows.                                   *)
(*   str            a sequence of one-character strings, "" is << >>       *)
(*   None           the one-element sequence <<"None">> (no character is   *)
(*                  the four-letter token, so it is no str)                *)
(*   Optional[int]  << >> for None, <<n>> for the integer n                *)
(*   an input that no source supplies (no keyword argument, no environment *)
(*   variable, no .env line) is the empty set; a supplied value v is {v}   *)
(***************************************************************************)
EXTENDS Integers, Sequences, FiniteSets, TLC

VARIABLES
    raw,          \* what the sources supply to Config(): field -> {} or {value}
    loaded,       \* "no" before Config() ran, then "ok" or "error"
    config,       \* the values of the validated Config object (NoConfig on error)
    errors,       \* the errors of the pydantic ValidationError (empty on success)
    again,        \* what the root validator returns for the validated values
    env,          \* which optional libraries this installation can import
    threads,      \* the threads of the process that call connect()
    pc,           \* per thread: where its connect() call stands
    local,        \* per thread: the Connector it constructed and has yet to store
    result,       \* per thread: how its latest connect() call went
    _pyodbc,               \* module global: TRUE once pyodbc is imported
    _ConnectorClass,       \* module global: TRUE once Connector, IPTypes are imported
    _connector_instance,   \* module global: the shared Connector, or NoObject
    created,      \* the Connector objects constructed so far
    opened,       \* the connections the backends have handed out so far
    calls,        \* the connect() calls begun so far
    _config,      \* BlobStorageClient: the configuration object it was given
    _credential,  \* BlobStorageClient: TRUE when a credential object was given
    _client,      \* BlobStorageClient: the storage.Client handle, or NoObject
    _bucket,      \* BlobStorageClient: the storage.Bucket it is bound to, or NoObject
    adc,          \* can google.auth.default() find ambient credentials
    buckets,      \* the remote storage: existing bucket -> (object name -> bytes)
    inits,        \* the init() calls made so far
    last_op,      \* the record of the latest call on the BlobStorageClient
    uploaded,     \* object name -> the payload of the latest upload that returned
    ready,        \* TRUE once an init() call has returned
    args,         \* run_inferencing: its arguments, the settings and libraries it reads
    stage,        \* run_inferencing: the stage that runs next
    frame,        \* run_inferencing: its local variables
    log,          \* run_inferencing: the stages and collaborator calls made, in order
    errlog,       \* run_inferencing: the logger.error lines written
    outcome       \* run_inferencing: what the call returned or raised

cfgVars == <<raw, loaded, config, errors, again>>

connVars == <<env, threads, pc, local, result, _pyodbc, _ConnectorClass,
              _connector_instance, created, opened, calls>>

storeVars == <<_config, _credential, _client, _bucket, adc, buckets, inits,
               last_op, uploaded, ready>>

pipeVars == <<args, stage, frame, log, errlog, outcome>>

vars == <<raw, loaded, config, errors, again, env, threads, pc, local, result,
          _pyodbc, _ConnectorClass, _connector_instance, created, opened, calls,
          _config, _credential, _client, _bucket, adc, buckets, inits, last_op,
          uploaded, ready, args, stage, frame, log, errlog, outcome>>

----------------------------------------------------------------------------
(* Python str, None and the str methods the code uses *)

None == <<"None">>

NoInt == << >>

SomeInt(n) == <<n>>

IntOf(x) == x[1]

Whitespace == {" ", "\t", "\n"}

UpperChars == <<"A","B","C","D","E","F","G","H","I","J","K","L","M",
                "N","O","P","Q","R","S","T","U","V","W","X","Y","Z">>

LowerChars == <<"a","b","c","d","e","f","g","h","i","j","k","l","m",
                "n","o","p","q","r","s","t","u","v","w","x","y","z">>

LowerChar(c) ==
    IF \E i \in 1..Len(UpperChars) : UpperChars[i] = c
    THEN LowerChars[CHOOSE i \in 1..Len(UpperChars) : UpperChars[i] = c]
    ELSE c

\* str.lower()
Lower(s) == [i \in 1..Len(s) |-> LowerChar(s[i])]

RECURSIVE LStrip(_)
LStrip(s) ==
    IF s # << >> /\ Head(s) \in Whitespace THEN LStrip(Tail(s)) ELSE s

RECURSIVE RStrip(_)
RStrip(s) ==
    IF s # << >> /\ s[Len(s)] \in Whitespace
    THEN RStrip(SubSeq(s, 1, Len(s) - 1))
    ELSE s

\* str.strip()
Strip(s) == RStrip(LStrip(s))

\* str.split(sep): the list of the maximal sep-free pieces, [''] for ''
RECURSIVE SplitAcc(_, _, _)
SplitAcc(s, sep, cur) ==
    IF s = << >> THEN <<cur>>
    ELSE IF Head(s) = sep THEN <<cur>> \o SplitAcc(Tail(s), sep, << >>)
    ELSE SplitAcc(Tail(s), sep, Append(cur, Head(s)))

Split(s, sep) == SplitAcc(s, sep, << >>)

\* Python truthiness of an Optional[str]: None and '' are falsy
Truthy(v) == v # None /\ Len(v) > 0

\* the test `v is None or len(str(v).strip()) == 0` of the root validator
IsBlank(v) == v = None \/ Len(Strip(v)) = 0

----------------------------------------------------------------------------
(* String literals of the source *)

MSSQL == <<"m","s","s","q","l">>

POSTGRES == <<"p","o","s","t","g","r","e","s">>

MYSQL == <<"m","y","s","q","l">>

SQLSERVER == <<"s","q","l","s","e","r","v","e","r">>

SQL_SERVER == <<"s","q","l","_","s","e","r","v","e","r">>

\* the default of line_detection_hough_min_line_length
DefaultMinLineLength == 10

\* the floor the root validator imposes on line_detection_hough_min_line_length
MinLineLengthFloor == 10

\* line_detection_hough_max_line_gap when dotted lines are detected and none is set
DefaultMaxLineGap == 10

----------------------------------------------------------------------------
(* class Config(BaseSettings): fields, defaults, validators *)

\* a value of a field typed Union[str, Set[str]]
StrVal(s) == [kind |-> "str", val |-> s]

SetVal(S) == [kind |-> "set", val |-> S]

\* the fields declared Union[str, Set[str]]
SetFields == {"flow_direction_asset_prefixes",
              "symbol_label_prefixes_to_connect_if_close",
              "symbol_label_prefixes_to_include_in_graph_image_output",
              "symbol_label_prefixes_with_text",
              "symbol_label_for_connectors"}

\* the fields the @validator of validate_and_transform_comma_separated_list names
CommaSeparatedFields == {"flow_direction_asset_prefixes",
                         "symbol_label_prefixes_with_text",
                         "symbol_label_prefixes_to_include_in_graph_image_output",
                         "symbol_label_prefixes_to_connect_if_close"}

\* the fields the @validator of validate_string_non_empty_for_symbol_api names
SymbolApiFields == {"symbol_detection_api", "symbol_detection_api_bearer_token"}

\* the defaults of the class body (the literals of the set defaults are opaque)
Defaults ==
    [ detect_dotted_lines |-> FALSE,
      flow_direction_asset_prefixes |->
          SetVal({"Equipment/", "Piping/Endpoint/Pagination"}),
      line_detection_hough_max_line_gap |-> NoInt,
      line_detection_hough_min_line_length |-> SomeInt(DefaultMinLineLength),
      symbol_detection_api |-> << >>,
      symbol_detection_api_bearer_token |-> << >>,
      symbol_label_prefixes_to_connect_if_close |->
          SetVal({"Equipment", "Instrument/Valve/",
                  "Piping/Fittings/Mid arrow flow direction",
                  "Piping/Fittings/Flanged connection"}),
      symbol_label_prefixes_to_include_in_graph_image_output |->
          SetVal({"Equipment/", "Instrument/Valve/", "Piping/Endpoint/Pagination"}),
      symbol_label_prefixes_with_text |->
          SetVal({"Equipment/", "Instrument/", "Piping/Endpoint/Pagination"}),
      symbol_label_for_connectors |-> SetVal({"Piping/Endpoint/Pagination"}),
      blob_storage_container_name |-> << >>,
      gcs_bucket_name |-> None,
      graph_db_connection_string |-> << >>,
      cloud_sql_instance_connection_name |-> None,
      db_user |-> None,
      db_password |-> None,
      db_name |-> None,
      graph_db_type |-> MSSQL,
      use_private_ip |-> FALSE ]

FieldNames == DOMAIN Defaults

Supplied(r, f) == r[f] # {}

Given(r, f) == CHOOSE v \in r[f] : TRUE

\* a ValueError raised by a validator, as pydantic reports it: the field it is
\* located at ("__root__" for the root validator) and the field(s) its message names
FieldError(f) == [loc |-> f, names |-> {f}]

RootError(fields) == [loc |-> "__root__", names |-> fields]

\* @validator(..., pre=True): the validator body, the set of errors it raises
validate_string_non_empty_for_symbol_api(v, field) ==
    IF v = None \/ Len(Strip(v)) = 0 THEN {FieldError(field)} ELSE {}

RECURSIVE StrippedNonEmpty(_)
StrippedNonEmpty(arr) ==
    IF arr = << >> THEN << >>
    ELSE IF Strip(Head(arr)) # << >>
         THEN <<Strip(Head(arr))>> \o StrippedNonEmpty(Tail(arr))
         ELSE StrippedNonEmpty(Tail(arr))

SetOf(arr) == {arr[i] : i \in 1..Len(arr)}

validate_and_transform_comma_separated_list(val) ==
    IF val.kind = "str"
    THEN SetVal(SetOf(StrippedNonEmpty(Split(val.val, ","))))
    ELSE val

\* pydantic runs a field's validators on a supplied value only (no always=True
\* on either @validator); a field no source supplies takes its default unvalidated
FieldErrors(r, f) ==
    IF Supplied(r, f) /\ f \in SymbolApiFields
    THEN validate_string_non_empty_for_symbol_api(Given(r, f), f)
    ELSE {}

FieldValue(r, f) ==
    IF ~Supplied(r, f) THEN Defaults[f]
    ELSE IF f \in CommaSeparatedFields
         THEN validate_and_transform_comma_separated_list(Given(r, f))
         ELSE Given(r, f)

\* the values handed to the root validator
FieldValues(r) == [f \in FieldNames |-> FieldValue(r, f)]

\* --- Storage check ---
StorageMissing_Mutant(values) ==
    ~Truthy(values.gcs_bucket_name) \/ IsBlank(values.blob_storage_container_name)

StorageMissing(values) ==
    ~Truthy(values.gcs_bucket_name) /\ IsBlank(values.blob_storage_container_name)

\* --- DB check ---
DbMissing_Mutant(values) ==
    IsBlank(values.cloud_sql_instance_connection_name)
    = IsBlank(values.graph_db_connection_string)

DbMissing(values) ==
    IsBlank(values.cloud_sql_instance_connection_name)
    /\ IsBlank(values.graph_db_connection_string)

SupportedDbTypes == {MSSQL, POSTGRES, MYSQL}

\* graph_db_type = str(values.get('graph_db_type') or 'mssql').lower()
NormalizedDbType(values) ==
    Lower(IF Truthy(values.graph_db_type) THEN values.graph_db_type ELSE MSSQL)

\* --- dotted lines handling ---
DottedLines_Mutant(values) ==
    IF values.detect_dotted_lines = TRUE
    THEN [min_line_length |-> NoInt,
          max_line_gap |->
              IF values.line_detection_hough_max_line_gap = NoInt
              THEN SomeInt(DefaultMaxLineGap)
              ELSE values.line_detection_hough_max_line_gap]
    ELSE [min_line_length |->
              IF values.line_detection_hough_min_line_length = NoInt
              THEN SomeInt(MinLineLengthFloor)
              ELSE values.line_detection_hough_min_line_length,
          max_line_gap |-> NoInt]

DottedLines(values) ==
    IF values.detect_dotted_lines = TRUE
    THEN [min_line_length |-> NoInt,
          max_line_gap |->
              IF values.line_detection_hough_max_line_gap = NoInt
              THEN SomeInt(DefaultMaxLineGap)
              ELSE values.line_detection_hough_max_line_gap]
    ELSE [min_line_length |->
              IF values.line_detection_hough_min_line_length = NoInt
                 \/ IntOf(values.line_detection_hough_min_line_length)
                        < MinLineLengthFloor
              THEN SomeInt(MinLineLengthFloor)
              ELSE values.line_detection_hough_min_line_length,
          max_line_gap |-> NoInt]

\* the assignments to values[...] of the root validator
DerivedValues_Mutant(values) ==
    [values EXCEPT
        !.line_detection_hough_min_line_length = DottedLines(values).min_line_length,
        !.line_detection_hough_max_line_gap = DottedLines(values).max_line_gap]

DerivedValues(values) ==
    [values EXCEPT
        !.graph_db_type = NormalizedDbType(values),
        !.line_detection_hough_min_line_length = DottedLines(values).min_line_length,
        !.line_detection_hough_max_line_gap = DottedLines(values).max_line_gap]

\* @root_validator: the error it raises (at most one) and the values it returns
validate_storage_and_db_configuration(values) ==
    IF StorageMissing(values)
    THEN [raised |-> {RootError({"gcs_bucket_name", "blob_storage_container_name"})},
          values |-> values]
    ELSE IF DbMissing(values)
    THEN [raised |-> {RootError({"cloud_sql_instance_connection_name",
                                 "graph_db_connection_string"})},
          values |-> values]
    ELSE IF NormalizedDbType(values) \notin SupportedDbTypes
    THEN [raised |-> {RootError({"graph_db_type"})}, values |-> values]
    ELSE [raised |-> {}, values |-> DerivedValues(values)]

\* Config(**r): every field validator, then the root validator (which pydantic
\* runs also after a field error); an object exists only when nothing was raised
ConfigErrors(r) ==
    UNION {FieldErrors(r, f) : f \in FieldNames}
    \cup validate_storage_and_db_configuration(FieldValues(r)).raised

ConfigValues(r) == validate_storage_and_db_configuration(FieldValues(r)).values

NoConfig == [none |-> TRUE]

\* the connect() calls of one process
MaxCalls == 3

\* the threads that call connect() concurrently
NumThreads == 2

----------------------------------------------------------------------------
(* app/repository/connect.py: connect() as the steps of one calling thread *)

\* no object (Python None where an object is expected); the n-th object made
NoObject == << >>

Object(n) == <<n>>

ValueError(fields) == [type |-> "ValueError", names |-> fields]

\* the RuntimeError of a failed lazy import
MissingDependency(lib) == [type |-> "RuntimeError", names |-> {lib}]

NoError == [type |-> "none", names |-> {}]

\* what pyodbc.connect or Connector.connect may raise: the backend's own errors
BackendErrors == {[type |-> "OperationalError", names |-> {}],
                  [type |-> "InterfaceError", names |-> {}]}

\* the record of one connect() call: status is none, running, returned or raised;
\* error is what the call raised to its caller; backend is the backend whose
\* connect was called, backend_raised what that raised; via is the Connector used
NoResult ==
    [status |-> "none", error |-> NoError, conn |-> NoObject, via |-> NoObject,
     backend |-> "none", backend_raised |-> NoError, driver |-> "none",
     ip_type |-> "none", db_type |-> << >>]

\* db_type = (getattr(config, "graph_db_type", None) or "mssql").lower()
DbType(cfg) == Lower(IF Truthy(cfg.graph_db_type) THEN cfg.graph_db_type ELSE MSSQL)

CloudTypes == {POSTGRES, MYSQL}

MssqlTypes == {MSSQL, SQLSERVER, SQL_SERVER}

\* the three `if not ...: raise ValueError` of the Cloud SQL branch, in order
CloudConfigError_Mutant(cfg) ==
    IF ~Truthy(cfg.cloud_sql_instance_connection_name)
    THEN {ValueError({"cloud_sql_instance_connection_name"})}
    ELSE IF ~Truthy(cfg.db_user) THEN {ValueError({"db_user"})}
    ELSE IF ~Truthy(cfg.db_password) THEN {ValueError({"db_password"})}
    ELSE IF ~Truthy(cfg.db_name) THEN {ValueError({"db_name"})}
    ELSE {}

CloudConfigError(cfg) ==
    IF ~Truthy(cfg.cloud_sql_instance_connection_name)
    THEN {ValueError({"cloud_sql_instance_connection_name"})}
    ELSE IF ~Truthy(cfg.db_user) THEN {ValueError({"db_user"})}
    ELSE IF ~Truthy(cfg.db_name) THEN {ValueError({"db_name"})}
    ELSE {}

\* the `if not connection_string: raise ValueError` of the MSSQL branch
MssqlConfigError(cfg) ==
    IF ~Truthy(cfg.graph_db_connection_string)
    THEN {ValueError({"graph_db_connection_string"})}
    ELSE {}

\* `if _connector_instance is None:`
MustConstruct_Mutant(instance) == TRUE

MustConstruct(instance) == instance = NoObject

\* `except Exception as e: logger.error(...); raise`
Reraise_Mutant(e) == [type |-> "RuntimeError", names |-> {e.type}]

Reraise(e) == e

Driver(db_type) == IF db_type = POSTGRES THEN "pg8000" ELSE "pymysql"

IpType(cfg) == IF cfg.use_private_ip THEN "PRIVATE" ELSE "PUBLIC"

\* thread t's call ends by raising e
Raises(t, e) ==
    /\ pc' = [pc EXCEPT ![t] = "idle"]
    /\ result' = [result EXCEPT ![t].status = "raised", ![t].error = e]

Goto(t, label) == pc' = [pc EXCEPT ![t] = label]

\* connect() is entered: the kind is read and the branch's settings are checked
Begin(t) ==
    /\ loaded = "ok"
    /\ pc[t] = "idle"
    /\ calls < MaxCalls
    /\ calls' = calls + 1
    /\ LET db_type == DbType(config)
           fresh == [NoResult EXCEPT !.status = "running", !.db_type = db_type]
           failed(e) ==
               /\ pc' = pc
               /\ result' = [result EXCEPT
                                ![t] = [fresh EXCEPT !.status = "raised", !.error = e]]
       IN  IF db_type \in CloudTypes
           THEN IF CloudConfigError(config) # {}
                THEN failed(CHOOSE e \in CloudConfigError(config) : TRUE)
                ELSE /\ Goto(t, "import_connector")
                     /\ result' = [result EXCEPT ![t] = fresh]
           ELSE IF db_type \in MssqlTypes
           THEN IF MssqlConfigError(config) # {}
                THEN failed(CHOOSE e \in MssqlConfigError(config) : TRUE)
                ELSE /\ Goto(t, "import_pyodbc")
                     /\ result' = [result EXCEPT ![t] = fresh]
           ELSE failed(ValueError({"graph_db_type"}))
    /\ UNCHANGED <<pipeVars, storeVars, cfgVars, env, threads, local, _pyodbc, _ConnectorClass,
                   _connector_instance, created, opened>>

\* _import_connector()
ImportConnector(t) ==
    /\ pc[t] = "import_connector"
    /\ IF _ConnectorClass \/ env.connector
       THEN /\ _ConnectorClass' = TRUE
            /\ Goto(t, "check_instance")
            /\ UNCHANGED result
       ELSE /\ Raises(t, MissingDependency("cloud-sql-python-connector"))
            /\ UNCHANGED _ConnectorClass
    /\ UNCHANGED <<pipeVars, storeVars, cfgVars, env, threads, local, _pyodbc, _connector_instance,
                   created, opened, calls>>

\* `if _connector_instance is None:`
CheckInstance(t) ==
    /\ pc[t] = "check_instance"
    /\ IF MustConstruct(_connector_instance)
       THEN Goto(t, "construct")
       ELSE Goto(t, "connect_cloud")
    /\ UNCHANGED <<pipeVars, storeVars, cfgVars, env, threads, local, result, _pyodbc, _ConnectorClass,
                   _connector_instance, created, opened, calls>>

\* `ConnectorClass()`: a new Connector
Construct(t) ==
    /\ pc[t] = "construct"
    /\ created' = created + 1
    /\ local' = [local EXCEPT ![t] = Object(created + 1)]
    /\ Goto(t, "store")
    /\ UNCHANGED <<pipeVars, storeVars, cfgVars, env, threads, result, _pyodbc, _ConnectorClass,
                   _connector_instance, opened, calls>>

\* `_connector_instance = ...`
Store(t) ==
    /\ pc[t] = "store"
    /\ _connector_instance' = local[t]
    /\ local' = [local EXCEPT ![t] = NoObject]
    /\ Goto(t, "connect_cloud")
    /\ UNCHANGED <<pipeVars, storeVars, cfgVars, env, threads, result, _pyodbc, _ConnectorClass,
                   created, opened, calls>>

\* `_connector_instance.connect(...)` of the postgres or the mysql branch
ConnectCloud(t) ==
    /\ pc[t] = "connect_cloud"
    /\ pc' = [pc EXCEPT ![t] = "idle"]
    /\ LET called == [result[t] EXCEPT !.backend = "connector",
                                       !.via = _connector_instance,
                                       !.driver = Driver(result[t].db_type),
                                       !.ip_type = IpType(config)]
       IN  \/ /\ opened' = opened + 1
              /\ result' = [result EXCEPT
                               ![t] = [called EXCEPT !.status = "returned",
                                                     !.conn = Object(opened + 1)]]
           \/ /\ \E e \in BackendErrors :
                     result' = [result EXCEPT
                                   ![t] = [called EXCEPT !.status = "raised",
                                                         !.backend_raised = e,
                                                         !.error = Reraise(e)]]
              /\ UNCHANGED opened
    /\ UNCHANGED <<pipeVars, storeVars, cfgVars, env, threads, local, _pyodbc, _ConnectorClass,
                   _connector_instance, created, calls>>

\* _import_pyodbc()
ImportPyodbc(t) ==
    /\ pc[t] = "import_pyodbc"
    /\ IF _pyodbc \/ env.pyodbc
       THEN /\ _pyodbc' = TRUE
            /\ Goto(t, "connect_mssql")
            /\ UNCHANGED result
       ELSE /\ Raises(t, MissingDependency("pyodbc"))
            /\ UNCHANGED _pyodbc
    /\ UNCHANGED <<pipeVars, storeVars, cfgVars, env, threads, local, _ConnectorClass,
                   _connector_instance, created, opened, calls>>

\* `pyodbc.connect(connection_string)`
ConnectMssql(t) ==
    /\ pc[t] = "connect_mssql"
    /\ pc' = [pc EXCEPT ![t] = "idle"]
    /\ LET called == [result[t] EXCEPT !.backend = "pyodbc"]
       IN  \/ /\ opened' = opened + 1
              /\ result' = [result EXCEPT
                               ![t] = [called EXCEPT !.status = "returned",
                                                     !.conn = Object(opened + 1)]]
           \/ /\ \E e \in BackendErrors :
                     result' = [result EXCEPT
                                   ![t] = [called EXCEPT !.status = "raised",
                                                         !.backend_raised = e,
                                                         !.error = Reraise(e)]]
              /\ UNCHANGED opened
    /\ UNCHANGED <<pipeVars, storeVars, cfgVars, env, threads, local, _pyodbc, _ConnectorClass,
                   _connector_instance, created, calls>>

\* the module globals when connect.py has been imported and nobody has called
NoCalls(T) ==
    /\ threads = T
    /\ pc = [t \in T |-> "idle"]
    /\ local = [t \in T |-> NoObject]
    /\ result = [t \in T |-> NoResult]
    /\ _pyodbc = FALSE
    /\ _ConnectorClass = FALSE
    /\ _connector_instance = NoObject
    /\ created = 0
    /\ opened = 0
    /\ calls = 0

----------------------------------------------------------------------------
(* app/services/blob_storage_client.py: BlobStorageClient *)

\* the init() calls on one client
MaxInits == 2

\* a bytes payload is its byte values, a str payload its code points
Bytes(data) == [type |-> "bytes", data |-> data]

Text(points) == [type |-> "str", data |-> points]

\* the UTF-8 bytes of a str of code points below 2048: what upload_from_string
\* stores when it is handed a str
RECURSIVE Utf8(_)
Utf8(points) ==
    IF points = << >> THEN << >>
    ELSE LET c == Head(points)
         IN  (IF c < 128 THEN <<c>> ELSE <<192 + (c \div 64), 128 + (c % 64)>>)
             \o Utf8(Tail(points))

\* `if isinstance(image_bytes, (bytes, bytearray)): blob.upload_from_string(image_bytes)
\*  else: blob.upload_from_string(str(image_bytes))`: the bytes the object holds then
UploadedBytes_Mutant(image_bytes) == image_bytes.data

UploadedBytes(image_bytes) ==
    IF image_bytes.type = "bytes" THEN image_bytes.data ELSE Utf8(image_bytes.data)

\* a mapping with no key; f with key k set to v
EmptyMap == [k \in {} |-> k]

Put(f, k, v) == [x \in DOMAIN f \cup {k} |-> IF x = k THEN v ELSE f[x]]

\* the storage.Client made by the k-th init(), the storage.Bucket it fetched, and
\* the Blob of a bucket
Client(k, project) == <<k, project>>

Bucket(k, name) == <<k, name>>

Blob(bucket, blob_name) == <<bucket[2], blob_name>>

\* the record of one call on the client: status is none, returned or raised;
\* backend is the set of requests the call sent to the storage service; exists,
\* bytes and blob are what blob_exists, download_bytes and upload_bytes returned
NoOp ==
    [op |-> "none", name |-> << >>, payload |-> Bytes(<< >>), status |-> "none",
     error |-> "none", backend |-> {}, exists |-> FALSE, bytes |-> << >>,
     blob |-> << >>]

NotInitializedError == "Blob storage client is not initialized"

\* throw_if_not_initialized(): TRUE when it raises
throw_if_not_initialized_Mutant(bucket, client) == client = NoObject

throw_if_not_initialized(bucket, client) == bucket = NoObject \/ client = NoObject

\* bucket_name = getattr(config, "gcs_bucket_name", None)
\*               or getattr(config, "blob_storage_container_name", None)
BucketName(cfg) ==
    IF Truthy(cfg.gcs_bucket_name) THEN cfg.gcs_bucket_name
    ELSE cfg.blob_storage_container_name

\* the project google.auth.default() reports
AdcProject == <<"d">>

\* project = config.gcp_project, or the ambient project when no credential was
\* given and the configuration names none; a falsy project is not passed on
Project(cfg, credential) ==
    LET project == IF ~credential /\ cfg.gcp_project = None
                   THEN AdcProject ELSE cfg.gcp_project
    IN  IF Truthy(project) THEN project ELSE None

\* the storage service: get_bucket, Blob.exists
BucketExists(name) == name \in DOMAIN buckets

ObjectExists(bucket, blob_name) ==
    /\ BucketExists(bucket[2])
    /\ blob_name \in DOMAIN buckets[bucket[2]]

\* the call ends by raising e, having sent the requests sent
OpRaises(call, e, sent) ==
    last_op' = [call EXCEPT !.status = "raised", !.error = e, !.backend = sent]

\* init()
init ==
    /\ inits < MaxInits
    /\ inits' = inits + 1
    /\ LET bucket_name == BucketName(_config)
           call == [NoOp EXCEPT !.op = "init"]
       IN  IF ~Truthy(bucket_name)
           THEN /\ OpRaises(call, "ValueError", {})
                /\ UNCHANGED <<_client, _bucket, ready>>
           ELSE IF ~_credential /\ ~adc
           THEN /\ OpRaises(call, "DefaultCredentialsError", {})
                /\ UNCHANGED <<_client, _bucket, ready>>
           ELSE /\ _client' = Client(inits + 1, Project(_config, _credential))
                /\ IF BucketExists(bucket_name)
                   THEN /\ _bucket' = Bucket(inits + 1, bucket_name)
                        /\ ready' = TRUE
                        /\ last_op' = [call EXCEPT !.status = "returned",
                                                   !.backend = {"get_bucket"}]
                   ELSE /\ OpRaises(call, "FileNotFoundError", {"get_bucket"})
                        /\ UNCHANGED <<_bucket, ready>>
    /\ UNCHANGED <<_config, _credential, adc, buckets, uploaded, cfgVars, connVars, pipeVars>>

\* upload_bytes(blob_name, image_bytes)
upload_bytes(blob_name, image_bytes) ==
    /\ LET call == [NoOp EXCEPT !.op = "upload_bytes", !.name = blob_name,
                                !.payload = image_bytes]
       IN  IF throw_if_not_initialized(_bucket, _client)
           THEN /\ OpRaises(call, NotInitializedError, {})
                /\ UNCHANGED <<buckets, uploaded>>
           ELSE IF _bucket = NoObject
           THEN /\ OpRaises(call, "AttributeError", {})
                /\ UNCHANGED <<buckets, uploaded>>
           ELSE IF ~BucketExists(_bucket[2])
           THEN /\ OpRaises(call, "NotFound", {"upload"})
                /\ UNCHANGED <<buckets, uploaded>>
           ELSE /\ buckets' = [buckets EXCEPT
                                  ![_bucket[2]] = Put(@, blob_name,
                                                      UploadedBytes(image_bytes))]
                /\ uploaded' = Put(uploaded, blob_name, image_bytes)
                /\ last_op' = [call EXCEPT !.status = "returned",
                                           !.backend = {"upload"},
                                           !.blob = Blob(_bucket, blob_name)]
    /\ UNCHANGED <<_config, _credential, _client, _bucket, adc, inits, ready,
                   cfgVars, connVars, pipeVars>>

\* download_bytes(blob_name)
download_bytes(blob_name) ==
    /\ LET call == [NoOp EXCEPT !.op = "download_bytes", !.name = blob_name]
       IN  IF throw_if_not_initialized(_bucket, _client)
           THEN OpRaises(call, NotInitializedError, {})
           ELSE IF _bucket = NoObject
           THEN OpRaises(call, "AttributeError", {})
           ELSE IF ~ObjectExists(_bucket, blob_name)
           THEN OpRaises(call, "FileNotFoundError", {"exists"})
           ELSE last_op' = [call EXCEPT !.status = "returned",
                                        !.backend = {"exists", "download"},
                                        !.bytes = buckets[_bucket[2]][blob_name]]
    /\ UNCHANGED <<_config, _credential, _client, _bucket, adc, buckets, inits,
                   uploaded, ready, cfgVars, connVars, pipeVars>>

\* blob_exists(blob_name)
blob_exists(blob_name) ==
    /\ LET call == [NoOp EXCEPT !.op = "blob_exists", !.name = blob_name]
       IN  IF throw_if_not_initialized(_bucket, _client)
           THEN OpRaises(call, NotInitializedError, {})
           ELSE IF _bucket = NoObject
           THEN OpRaises(call, "AttributeError", {})
           ELSE last_op' = [call EXCEPT !.status = "returned",
                                        !.backend = {"exists"},
                                        !.exists = ObjectExists(_bucket, blob_name)]
    /\ UNCHANGED <<_config, _credential, _client, _bucket, adc, buckets, inits,
                   uploaded, ready, cfgVars, connVars, pipeVars>>

\* the owner of a bucket deletes it, and its objects with it
DeleteBucket(name) ==
    /\ BucketExists(name)
    /\ buckets' = [b \in DOMAIN buckets \ {name} |-> buckets[b]]
    /\ UNCHANGED <<_config, _credential, _client, _bucket, adc, inits, last_op,
                   uploaded, ready, cfgVars, connVars, pipeVars>>

\* no BlobStorageClient in the process
NoStorage ==
    /\ _config = NoConfig
    /\ _credential = FALSE
    /\ _client = NoObject
    /\ _bucket = NoObject
    /\ adc = FALSE
    /\ buckets = EmptyMap
    /\ inits = 0
    /\ last_op = NoOp
    /\ uploaded = EmptyMap
    /\ ready = FALSE

----------------------------------------------------------------------------
(* app/services/text_detection/text_detection_service.py *)

\* the vertices of one polygon, the detections of one image, the association
\* records one correlation returns
MaxVertices == 5

MaxDetections == 2

MaxAssociations == 2

\* min(...) and max(...) of a non-empty collection of integers
MinOf(S) == CHOOSE m \in S : \A x \in S : m <= x

MaxOf(S) == CHOOSE m \in S : \A x \in S : x <= m

\* top_x, top_y, bottom_x, bottom_y of _convert_text_detection_to_text_details:
\* the min and max over all points of a polygon of fewer than 4, over
\* bounding_box[0..3] otherwise, 0 where there is no point
PixelBox_Mutant(bounding_box) ==
    LET xs == {bounding_box[i][1] : i \in 1..Len(bounding_box)}
        ys == {bounding_box[i][2] : i \in 1..Len(bounding_box)}
    IN  IF xs = {} THEN <<0, 0, 0, 0>>
        ELSE <<MinOf(xs), MinOf(ys), MaxOf(xs), MaxOf(ys)>>

PixelBox(bounding_box) ==
    LET used == IF Len(bounding_box) < 4 THEN bounding_box
                ELSE SubSeq(bounding_box, 1, 4)
        xs == {used[i][1] : i \in 1..Len(used)}
        ys == {used[i][2] : i \in 1..Len(used)}
    IN  IF xs = {} THEN <<0, 0, 0, 0>>
        ELSE <<MinOf(xs), MinOf(ys), MaxOf(xs), MaxOf(ys)>>

\* app.utils.image_utils.normalize_coordinates: the pixel box expressed in the
\* coordinate system of an image of the given height and width
normalize_coordinates(top_x, top_y, bottom_x, bottom_y, image_height, image_width) ==
    [of |-> <<top_x, top_y, bottom_x, bottom_y>>,
     height |-> image_height, width |-> image_width]

\* list(_convert_text_detection_to_text_details(results, height, width)): one
\* TextRecognized per (text, bounding_box), its coordinates the normalized box
_convert_text_detection_to_text_details(text_detection_results, image_height, image_width) ==
    [i \in 1..Len(text_detection_results) |->
        LET text == text_detection_results[i][1]
            box == PixelBox(text_detection_results[i][2])
        IN  [text |-> text,
             box |-> normalize_coordinates(box[1], box[2], box[3], box[4],
                                           image_height, image_width)]]

\* _read_text_with_google_vision: the bbox made of the vertices of an annotation
VisionBBox(vertices) ==
    IF Len(vertices) >= 4 THEN SubSeq(vertices, 1, 4)
    ELSE IF Len(vertices) > 0
    THEN LET xs == {vertices[i][1] : i \in 1..Len(vertices)}
             ys == {vertices[i][2] : i \in 1..Len(vertices)}
         IN  <<<<MinOf(xs), MinOf(ys)>>, <<MaxOf(xs), MinOf(ys)>>,
               <<MaxOf(xs), MaxOf(ys)>>, <<MinOf(xs), MaxOf(ys)>>>>
    ELSE <<<<0, 0>>, <<0, 0>>, <<0, 0>>, <<0, 0>>>>

\* _read_text_with_google_vision: the (text, bbox) results of the annotations,
\* the first of which (the full text) is skipped
VisionResults(annotations) ==
    IF annotations = << >> THEN << >>
    ELSE [i \in 1..(Len(annotations) - 1) |->
             <<annotations[i + 1].description, VisionBBox(annotations[i + 1].vertices)>>]

\* _read_text_with_google_vision, lines 97-115: it raises when the vision library
\* is not installed, when the API call raises, and when the response carries an
\* error message; otherwise the response has its annotations
VisionFailure(type, message) ==
    [error |-> [type |-> type, message |-> message], text_annotations |-> << >>]

VisionFailures(installed) ==
    IF ~installed
    THEN {VisionFailure("RuntimeError", "google.cloud.vision is not available.")}
    ELSE {VisionFailure("GoogleAPIError", "429 Quota exceeded"),
          VisionFailure("RuntimeError", "Google Vision error: Bad image data.")}

VisionResponse(annotations) ==
    [error |-> [type |-> "none", message |-> "none"], text_annotations |-> annotations]

\* `except Exception as e: logger.error(...); raise HTTPException(...)`
OcrHttpException_Mutant(e) ==
    [type |-> "HTTPException", status_code |-> 500, detail |-> e.message]

OcrHttpException(e) ==
    [type |-> "HTTPException", status_code |-> 500,
     detail |-> "There was an internal issue performing OCR on the image."]

\* the order of the characters that sorted() compares
CodeOrder ==
    <<"/", "0", "1", "2", "3", "4", "5", "6", "7", "8", "9">> \o UpperChars \o LowerChars

RECURSIVE StrLeq(_, _)
StrLeq(a, b) ==
    IF a = << >> THEN TRUE
    ELSE IF b = << >> THEN FALSE
    ELSE IF Head(a) = Head(b) THEN StrLeq(Tail(a), Tail(b))
    ELSE (CHOOSE i \in 1..Len(CodeOrder) : CodeOrder[i] = Head(a))
         < (CHOOSE i \in 1..Len(CodeOrder) : CodeOrder[i] = Head(b))

\* tuple(sorted([elem.lower() for elem in symbol_label_prefixes_with_text]))
RECURSIVE symbol_label_prefixes_with_text_lowered_tuple_Mutant(_)
symbol_label_prefixes_with_text_lowered_tuple_Mutant(prefixes) ==
    IF prefixes = {} THEN << >>
    ELSE LET first == CHOOSE x \in prefixes :
                          \A y \in prefixes : StrLeq(x, y)
         IN  <<first>> \o symbol_label_prefixes_with_text_lowered_tuple_Mutant(
                              prefixes \ {first})

RECURSIVE symbol_label_prefixes_with_text_lowered_tuple(_)
symbol_label_prefixes_with_text_lowered_tuple(prefixes) ==
    IF prefixes = {} THEN << >>
    ELSE LET first == CHOOSE x \in prefixes :
                          \A y \in prefixes : StrLeq(Lower(x), Lower(y))
         IN  <<Lower(first)>> \o symbol_label_prefixes_with_text_lowered_tuple(
                                     prefixes \ {first})

\* str.startswith(tuple)
StartsWith(s, prefixes) ==
    \E i \in 1..Len(prefixes) :
        /\ Len(prefixes[i]) <= Len(s)
        /\ SubSeq(s, 1, Len(prefixes[i])) = prefixes[i]

Digits == {"0", "1", "2", "3", "4", "5", "6", "7", "8", "9"}

\* app.utils.regex_utils: the text is one number, or one fraction of two numbers
does_string_contain_only_one_number_or_one_fraction(text) ==
    LET IsNumber(t) == t # << >> /\ \A i \in 1..Len(t) : t[i] \in Digits
    IN  \/ IsNumber(text)
        \/ \E k \in 1..Len(text) :
               /\ text[k] = "/"
               /\ IsNumber(SubSeq(text, 1, k - 1))
               /\ IsNumber(SubSeq(text, k + 1, Len(text)))

\* app.utils.regex_utils: the text has a digit and has a letter
does_string_contain_at_least_one_number_and_one_letter(text) ==
    /\ \E i \in 1..Len(text) : text[i] \in Digits
    /\ \E i \in 1..Len(text) : \E j \in 1..Len(LowerChars) :
           text[i] \in {LowerChars[j], UpperChars[j]}

\* the test of the loop that fills pruned_text_and_symbols_associated_list
Pruned_Mutant(record, prefixes) ==
    /\ ~does_string_contain_only_one_number_or_one_fraction(record.text_associated)
    /\ StartsWith(Lower(record.label), prefixes)

Pruned(record, prefixes) ==
    /\ ~(\/ record.text_associated = None
         \/ does_string_contain_only_one_number_or_one_fraction(record.text_associated))
    /\ StartsWith(Lower(record.label), prefixes)

\* TextDetectionInferenceResponse(image_url=f'{pid_id}.png', ...)
TextDetectionInferenceResponse_Mutant(pid_id, symbols, text_details, associated) ==
    [image_url |-> pid_id,
     image_details |-> symbols.image_details,
     bounding_box_inclusive |-> symbols.bounding_box_inclusive,
     all_text_list |-> text_details,
     text_and_symbols_associated_list |-> associated]

TextDetectionInferenceResponse(pid_id, symbols, text_details, associated) ==
    [image_url |-> pid_id \o <<".", "p", "n", "g">>,
     image_details |-> symbols.image_details,
     bounding_box_inclusive |-> symbols.bounding_box_inclusive,
     all_text_list |-> text_details,
     text_and_symbols_associated_list |-> associated]

\* draw_bounding_boxes(image, image_details, ids, bounding_boxes, labels, valid_bit_array):
\* the image drawn from these arguments
draw_bounding_boxes(image, image_details, ids, bounding_boxes, labels, valid_bit_array) ==
    [image |-> image, image_details |-> image_details, ids |-> ids,
     bounding_boxes |-> bounding_boxes, labels |-> labels,
     valid_bit_array |-> valid_bit_array]

\* the local variables of run_inferencing before any is assigned
NoFrame ==
    [symbol_label_prefixes_with_text_lowered_tuple |-> << >>,
     image_byte_stream |-> << >>,
     ocr_error |-> [type |-> "none", message |-> "none"],
     text_detection_inference_results |-> << >>,
     text_details |-> << >>,
     text_and_symbols_associated_list |-> << >>,
     inference_response |-> << >>,
     pruned_text_and_symbols_associated_list |-> << >>,
     ids |-> << >>, bounding_boxes |-> << >>, labels |-> << >>,
     valid_bit_array |-> << >>,
     debug_symbol_with_text_image |-> << >>,
     debug_text_image |-> << >>]

NoOutcome == [status |-> "none", error |-> << >>, response |-> << >>]

\* `if (config.debug and debug_image_text_path)`
DebugText == args.config.debug /\ Truthy(args.debug_image_text_path)

\* lines 186-191: the prefixes tuple, and the optional pre-processing
Preprocess ==
    /\ stage = "preprocess"
    /\ stage' = "ocr"
    /\ frame' = [frame EXCEPT
           !.symbol_label_prefixes_with_text_lowered_tuple =
               symbol_label_prefixes_with_text_lowered_tuple(
                   args.symbol_label_prefixes_with_text),
           !.image_byte_stream =
               IF args.config.enable_preprocessing_text_detection
               THEN <<"preprocessed", args.image>> ELSE args.image]
    /\ log' = IF args.config.enable_preprocessing_text_detection
              THEN Append(log, [stage |-> "preprocess", image |-> args.image])
              ELSE log
    /\ UNCHANGED <<args, errlog, outcome, cfgVars, connVars, storeVars>>

\* lines 193-199: _read_text_with_google_vision, and what is made of its failure
Ocr ==
    /\ stage = "ocr"
    /\ \E response \in VisionFailures(args.vision_installed)
                       \cup (IF args.vision_installed THEN args.vision_responses ELSE {}) :
           LET call == [stage |-> "ocr", image |-> frame.image_byte_stream]
           IN  /\ log' = Append(log, call)
               /\ IF response.error.type # "none"
                  THEN /\ frame' = [frame EXCEPT !.ocr_error = response.error]
                       /\ errlog' = Append(errlog, "There was an error performing OCR on the image")
                       /\ outcome' = [NoOutcome EXCEPT
                                         !.status = "raised",
                                         !.error = OcrHttpException(response.error)]
                       /\ stage' = "done"
                  ELSE /\ frame' = [frame EXCEPT
                                       !.text_detection_inference_results =
                                           VisionResults(response.text_annotations)]
                       /\ stage' = "convert"
                       /\ UNCHANGED <<errlog, outcome>>
    /\ UNCHANGED <<args, cfgVars, connVars, storeVars>>

\* lines 201-206
Convert ==
    /\ stage = "convert"
    /\ stage' = "correlate"
    /\ frame' = [frame EXCEPT
           !.text_details = _convert_text_detection_to_text_details(
                                frame.text_detection_inference_results,
                                args.symbols.image_details.height,
                                args.symbols.image_details.width)]
    /\ log' = Append(log, [stage |-> "convert",
                           results |-> frame.text_detection_inference_results])
    /\ UNCHANGED <<args, errlog, outcome, cfgVars, connVars, storeVars>>

\* lines 207-213: correlate_symbols_with_text returns some association records
Correlate ==
    /\ stage = "correlate"
    /\ stage' = "assemble"
    /\ \E returned \in args.correlations :
           /\ frame' = [frame EXCEPT !.text_and_symbols_associated_list = returned]
           /\ log' = Append(log,
                  [stage |-> "correlate",
                   text_details |-> frame.text_details,
                   symbols |-> args.symbols,
                   area_threshold |-> args.area_threshold,
                   distance_threshold |-> args.distance_threshold,
                   prefixes |-> frame.symbol_label_prefixes_with_text_lowered_tuple,
                   returned |-> returned])
    /\ UNCHANGED <<args, errlog, outcome, cfgVars, connVars, storeVars>>

\* lines 215-221
Assemble ==
    /\ stage = "assemble"
    /\ stage' = "filter"
    /\ frame' = [frame EXCEPT
           !.inference_response =
               TextDetectionInferenceResponse(
                   args.pid_id, args.symbols, frame.text_details,
                   frame.text_and_symbols_associated_list)]
    /\ log' = Append(log, [stage |-> "assemble"])
    /\ UNCHANGED <<args, errlog, outcome, cfgVars, connVars, storeVars>>

\* lines 225-247: the records to draw, and the four lists made of them
Filter ==
    /\ stage = "filter"
    /\ stage' = "render"
    /\ LET kept(r) == Pruned(r, frame.symbol_label_prefixes_with_text_lowered_tuple)
           pruned == SelectSeq(frame.text_and_symbols_associated_list, kept)
       IN  frame' = [frame EXCEPT
               !.pruned_text_and_symbols_associated_list = pruned,
               !.ids = [i \in 1..Len(pruned) |-> pruned[i].id],
               !.bounding_boxes = [i \in 1..Len(pruned) |-> pruned[i].box],
               !.labels = [i \in 1..Len(pruned) |-> pruned[i].text_associated],
               !.valid_bit_array =
                   [i \in 1..Len(pruned) |->
                       IF does_string_contain_at_least_one_number_and_one_letter(
                              IF Truthy(pruned[i].text_associated)
                              THEN pruned[i].text_associated ELSE << >>)
                       THEN 1 ELSE 0]]
    /\ log' = Append(log, [stage |-> "filter"])
    /\ UNCHANGED <<args, errlog, outcome, cfgVars, connVars, storeVars>>

\* lines 248-267: the two draw_bounding_boxes calls
Render ==
    /\ stage = "render"
    /\ stage' = "write"
    /\ LET symbols_image ==
               draw_bounding_boxes(args.image, args.symbols.image_details, frame.ids,
                                   frame.bounding_boxes, frame.labels,
                                   frame.valid_bit_array)
           text_image ==
               draw_bounding_boxes(
                   args.image, args.symbols.image_details, None,
                   [i \in 1..Len(frame.text_details) |-> frame.text_details[i].box],
                   [i \in 1..Len(frame.text_details) |-> frame.text_details[i].text],
                   None)
       IN  /\ frame' = [frame EXCEPT
                  !.debug_symbol_with_text_image = symbols_image,
                  !.debug_text_image = IF DebugText THEN text_image ELSE << >>]
           /\ log' = log \o <<[stage |-> "render", image |-> symbols_image]>>
                         \o (IF DebugText
                             THEN <<[stage |-> "render", image |-> text_image]>>
                             ELSE << >>)
    /\ UNCHANGED <<args, errlog, outcome, cfgVars, connVars, storeVars>>

\* lines 269-277: the cv2.imwrite calls in their try block, and the return;
\* cv2.imwrite returns True, returns False when it cannot write, or raises
Write ==
    /\ stage = "write"
    /\ stage' = "done"
    /\ \E first, second \in {"written", "refused", "raised"} :
           LET symbols_write ==
                   IF Truthy(args.output_image_symbol_and_text_path)
                   THEN <<[stage |-> "write",
                           path |-> args.output_image_symbol_and_text_path,
                           image |-> frame.debug_symbol_with_text_image,
                           result |-> first]>>
                   ELSE << >>
               text_write ==
                   IF DebugText /\ ~(symbols_write # << >> /\ first = "raised")
                   THEN <<[stage |-> "write",
                           path |-> args.debug_image_text_path,
                           image |-> frame.debug_text_image,
                           result |-> second]>>
                   ELSE << >>
               writes == symbols_write \o text_write
           IN  /\ log' = log \o writes
               /\ errlog' = IF \E i \in 1..Len(writes) : writes[i].result = "raised"
                            THEN Append(errlog, "Error saving text detection output images")
                            ELSE errlog
    /\ outcome' = [NoOutcome EXCEPT !.status = "returned",
                                    !.response = frame.inference_response]
    /\ UNCHANGED <<args, frame, cfgVars, connVars, storeVars>>

\* no run_inferencing call in the process
NoPipeline ==
    /\ args = << >>
    /\ stage = "none"
    /\ frame = NoFrame
    /\ log = << >>
    /\ errlog = << >>
    /\ outcome = NoOutcome

----------------------------------------------------------------------------
(* The inputs the sources may supply *)

Opt(S) == {{}} \cup {{v} : v \in S}

EMPTY == << >>

BLANK == <<" ">>

\* nothing supplied but the two symbol detection settings and one storage and one
\* database target: a configuration Config() accepts
BaseInput ==
    [f \in FieldNames |->
        CASE f = "symbol_detection_api" -> {<<"a">>}
          [] f = "symbol_detection_api_bearer_token" -> {<<"t">>}
          [] f = "gcs_bucket_name" -> {<<"b">>}
          [] f = "graph_db_connection_string" -> {<<"s">>}
          [] OTHER -> {}]

GcsInputs == Opt({None, EMPTY, BLANK, <<"b">>})

BlobInputs == Opt({EMPTY, BLANK, <<"c">>})

CloudSqlInputs == Opt({EMPTY, BLANK, <<"i">>})

ConnStrInputs == Opt({EMPTY, BLANK, <<"s">>})

DbTypeInputs == Opt({EMPTY, <<"M","S","S","Q","L">>, <<"P","o","s","t","g","r","e","s">>,
                     MYSQL, SQLSERVER, <<"o","r","a","c","l","e">>})

ApiInputs == Opt({EMPTY, BLANK, <<"a">>})

TokenInputs == Opt({BLANK, <<"t">>})

LineLengthInputs == Opt({NoInt, SomeInt(MinLineLengthFloor - 5), SomeInt(MinLineLengthFloor),
                         SomeInt(MinLineLengthFloor + 5)})

LineGapInputs == Opt({NoInt, SomeInt(3)})

\* storage, database and symbol detection settings, the line settings left alone
TargetInputs ==
    { [BaseInput EXCEPT !.gcs_bucket_name = g,
                        !.blob_storage_container_name = b,
                        !.cloud_sql_instance_connection_name = c,
                        !.graph_db_connection_string = s,
                        !.graph_db_type = t,
                        !.symbol_detection_api = a,
                        !.symbol_detection_api_bearer_token = k] :
        <<g, b, c, s, t, a, k>> \in
            GcsInputs \X BlobInputs \X CloudSqlInputs \X ConnStrInputs
            \X DbTypeInputs \X ApiInputs \X TokenInputs }

\* the line detection settings, with and without a storage target
LineInputs ==
    { [BaseInput EXCEPT !.detect_dotted_lines = d,
                        !.line_detection_hough_min_line_length = m,
                        !.line_detection_hough_max_line_gap = x,
                        !.gcs_bucket_name = g] :
        <<d, m, x, g>> \in
            Opt(BOOLEAN) \X LineLengthInputs \X LineGapInputs \X Opt({<<"b">>}) }

ConfigInputs == TargetInputs \cup LineInputs

\* the settings connect() reads
DbInputs ==
    { [BaseInput EXCEPT !.cloud_sql_instance_connection_name = c,
                        !.graph_db_connection_string = s,
                        !.graph_db_type = t,
                        !.db_user = u,
                        !.db_name = n,
                        !.db_password = w,
                        !.use_private_ip = i] :
        <<c, s, t, u, n, w, i>> \in
            Opt({EMPTY, <<"i">>}) \X Opt({<<"s">>})
            \X Opt({<<"P","o","s","t","g","r","e","s">>, MYSQL, <<"M","S","S","Q","L">>})
            \X Opt({EMPTY, <<"u">>}) \X Opt({EMPTY, <<"n">>})
            \X Opt({EMPTY, <<"p">>}) \X Opt({TRUE}) }

\* complete settings of each kind, for the threads
ThreadInputs ==
    { [BaseInput EXCEPT !.cloud_sql_instance_connection_name = {<<"i">>},
                        !.graph_db_type = t,
                        !.db_user = {<<"u">>},
                        !.db_name = {<<"n">>}] :
        t \in Opt({POSTGRES, MYSQL}) }

\* the longest comma-delimited string supplied to a set-valued field
MaxLen == 4

ListChars == {"a", "b", " ", ","}

ListStrings == UNION {[1..n -> ListChars] : n \in 0..MaxLen}

\* one set-valued field supplied, as a comma-delimited string or as a set
SetInputs ==
    { [BaseInput EXCEPT ![f] = {v}] :
        f \in SetFields,
        v \in {StrVal(x) : x \in ListStrings} \cup {SetVal({<<"a">>, <<"b">>})} }

----------------------------------------------------------------------------
(* Specification: config = Config() at import, and a second root validation *)

NotLoaded ==
    /\ loaded = "no"
    /\ config = NoConfig
    /\ errors = {}
    /\ again = NoConfig

AllLibraries == [pyodbc |-> TRUE, connector |-> TRUE]

Init ==
    /\ raw \in ConfigInputs
    /\ NotLoaded
    /\ env = AllLibraries
    /\ NoCalls({})
    /\ NoStorage
    /\ NoPipeline

\* config = Config()
LoadConfig ==
    /\ loaded = "no"
    /\ errors' = ConfigErrors(raw)
    /\ loaded' = IF errors' = {} THEN "ok" ELSE "error"
    /\ config' = IF errors' = {} THEN ConfigValues(raw) ELSE NoConfig
    /\ UNCHANGED <<raw, again, connVars, storeVars, pipeVars>>

\* the root validator run on the validated values once more
Revalidate ==
    /\ loaded = "ok"
    /\ again = NoConfig
    /\ again' = validate_storage_and_db_configuration(config)
    /\ UNCHANGED <<raw, loaded, config, errors, connVars, storeVars, pipeVars>>

Next == LoadConfig \/ Revalidate

Spec == Init /\ [][Next]_vars

InitSets ==
    /\ raw \in SetInputs
    /\ NotLoaded
    /\ env = AllLibraries
    /\ NoCalls({})
    /\ NoStorage
    /\ NoPipeline

\* Config() with one set-valued field supplied
SpecSets == InitSets /\ [][Next]_vars

Environments == [pyodbc : BOOLEAN, connector : BOOLEAN]

InitConnect ==
    /\ raw \in DbInputs
    /\ NotLoaded
    /\ env \in Environments
    /\ NoCalls({1})
    /\ NoStorage
    /\ NoPipeline

NextConnect ==
    \/ LoadConfig
    \/ \E t \in threads : Begin(t)
    \/ \E t \in threads : ImportConnector(t)
    \/ \E t \in threads : CheckInstance(t)
    \/ \E t \in threads : Construct(t)
    \/ \E t \in threads : Store(t)
    \/ \E t \in threads : ConnectCloud(t)
    \/ \E t \in threads : ImportPyodbc(t)
    \/ \E t \in threads : ConnectMssql(t)

\* one process: config = Config(), then connect() calls one after the other
SpecConnect == InitConnect /\ [][NextConnect]_vars

InitThreads ==
    /\ raw \in ThreadInputs
    /\ NotLoaded
    /\ env \in Environments
    /\ NoCalls(1..NumThreads)
    /\ NoStorage
    /\ NoPipeline

\* one process: config = Config(), then connect() calls of concurrent threads
SpecThreads == InitThreads /\ [][NextConnect]_vars

----------------------------------------------------------------------------
(* Specification: one BlobStorageClient and the calls made on it *)

BucketNames == {<<"b">>, <<"c">>}

ObjectNames == {<<"n">>, <<"m">>}

Payloads == {Bytes(<<1>>), Bytes(<<2>>), Text(<<233>>)}

\* the configuration objects a client may be given: the constructor takes any
\* object, and getattr(..., None) reads a missing attribute as None
StorageConfigs ==
    [gcs_bucket_name : {None, EMPTY, <<"b">>, <<"x">>},
     blob_storage_container_name : {None, <<"c">>},
     gcp_project : {None, <<"p">>}]

\* the buckets of the storage service: bucket c holds one object already
InitialObjects(name) ==
    IF name = <<"c">> THEN [k \in {<<"m">>} |-> <<9>>] ELSE EmptyMap

InitialBuckets == {[b \in B |-> InitialObjects(b)] : B \in SUBSET BucketNames}

\* BlobStorageClient(config, credential)
InitStorage ==
    /\ raw = BaseInput
    /\ NotLoaded
    /\ env = AllLibraries
    /\ NoCalls({})
    /\ _config \in StorageConfigs
    /\ _credential \in BOOLEAN
    /\ adc \in BOOLEAN
    /\ buckets \in InitialBuckets
    /\ _client = NoObject
    /\ _bucket = NoObject
    /\ inits = 0
    /\ last_op = NoOp
    /\ uploaded = EmptyMap
    /\ ready = FALSE
    /\ NoPipeline

NextStorage ==
    \/ init
    \/ \E n \in ObjectNames, p \in Payloads : upload_bytes(n, p)
    \/ \E n \in ObjectNames : download_bytes(n)
    \/ \E n \in ObjectNames : blob_exists(n)

\* the client is the only one to act on its bucket
SpecStorage == InitStorage /\ [][NextStorage]_vars

NextStorageEnv ==
    \/ init
    \/ \E n \in ObjectNames, p \in Payloads : upload_bytes(n, p)
    \/ \E n \in ObjectNames : download_bytes(n)
    \/ \E n \in ObjectNames : blob_exists(n)
    \/ \E b \in BucketNames : DeleteBucket(b)

\* buckets may be deleted while the client is in use
SpecStorageEnv == InitStorage /\ [][NextStorageEnv]_vars

----------------------------------------------------------------------------
(* Specifications: one run_inferencing call; the conversion of OCR results *)

\* sample polygons of n vertices
SamplePolygon(k, n) == [i \in 1..n |-> <<(3 * i * k) % 7, (5 * i + k) % 6>>]

Detections ==
    {<<t, SamplePolygon(k, n)>> :
        t \in {<<"A">>, <<"7">>}, k \in 1..3, n \in 0..MaxVertices}

DetectionLists == UNION {[1..n -> Detections] : n \in 0..MaxDetections}

\* the annotations of a Vision response: none, or the full text and one
\* annotation per detected text
AnnotationLists ==
    LET Annotations ==
            {[description |-> <<"A">>, vertices |-> SamplePolygon(1, MaxVertices)],
             [description |-> <<"7">>, vertices |-> SamplePolygon(2, 2)]}
    IN  {<< >>} \cup
        {<<[description |-> <<"A", " ", "7">>, vertices |-> << >>]>> \o found :
            found \in UNION {[1..n -> Annotations] : n \in 0..MaxDetections}}

\* the association records a correlation may return
Association(id, label, text_associated) ==
    [id |-> id, label |-> label, text_associated |-> text_associated,
     box |-> <<id, id, id + 1, id + 1>>]

AssociationLists ==
    LET AssociationRecords ==
            {Association(1, <<"A", "b">>, None),
             Association(2, <<"A", "b">>, <<"3">>),
             Association(3, <<"a", "B">>, <<"1", "/", "2">>),
             Association(4, <<"A", "b">>, <<"V", "1">>),
             Association(5, <<"c">>, <<"V", "1">>),
             Association(6, <<"a", "b">>, <<"A", "B">>)}
    IN  UNION {[1..n -> AssociationRecords] : n \in 0..MaxAssociations}

PrefixSets ==
    {{}, {<<"A">>}, {<<"b">>, <<"A", "B">>, <<"C">>}, {<<"a">>, <<"A">>, <<"c">>}}

\* a call with both images asked for, debug on, pre-processing off
BaseArgs ==
    [pid_id |-> <<"P", "1">>,
     symbols |-> [image_details |-> [height |-> 30, width |-> 40],
                  bounding_box_inclusive |-> <<0, 0, 40, 30>>],
     image |-> <<"image">>,
     area_threshold |-> "0.8",
     distance_threshold |-> "0.01",
     symbol_label_prefixes_with_text |-> {<<"A">>},
     debug_image_text_path |-> <<"t">>,
     output_image_symbol_and_text_path |-> <<"o">>,
     config |-> [enable_preprocessing_text_detection |-> FALSE, debug |-> TRUE],
     vision_installed |-> TRUE,
     vision_responses |-> {VisionResponse(a) : a \in AnnotationLists},
     correlations |-> {<<Association(4, <<"A", "b">>, <<"V", "1">>),
                         Association(2, <<"A", "b">>, <<"3">>)>>}]

\* the settings and paths vary; the prefixes and correlations vary
PipelineInputs ==
    { [BaseArgs EXCEPT !.config = [enable_preprocessing_text_detection |-> e,
                                   debug |-> d],
                       !.debug_image_text_path = t,
                       !.output_image_symbol_and_text_path = o,
                       !.vision_installed = v] :
        e \in BOOLEAN, d \in BOOLEAN, t \in {None, <<"t">>},
        o \in {None, EMPTY, <<"o">>}, v \in BOOLEAN }
    \cup
    { [BaseArgs EXCEPT !.symbol_label_prefixes_with_text = x,
                       !.vision_responses =
                           {VisionResponse(a) : a \in {b \in AnnotationLists : Len(b) = 2}},
                       !.correlations = AssociationLists] :
        x \in PrefixSets }

InitPipeline ==
    /\ raw = BaseInput
    /\ NotLoaded
    /\ env = AllLibraries
    /\ NoCalls({})
    /\ NoStorage
    /\ args \in PipelineInputs
    /\ stage = "preprocess"
    /\ frame = NoFrame
    /\ log = << >>
    /\ errlog = << >>
    /\ outcome = NoOutcome

NextPipeline ==
    \/ Preprocess
    \/ Ocr
    \/ Convert
    \/ Correlate
    \/ Assemble
    \/ Filter
    \/ Render
    \/ Write

\* one call of run_inferencing
SpecPipeline == InitPipeline /\ [][NextPipeline]_vars

\* _convert_text_detection_to_text_details called with a list of detections
InitConvert ==
    /\ raw = BaseInput
    /\ NotLoaded
    /\ env = AllLibraries
    /\ NoCalls({})
    /\ NoStorage
    /\ args = BaseArgs
    /\ stage = "convert"
    /\ \E d \in DetectionLists :
           frame = [NoFrame EXCEPT !.text_detection_inference_results = d]
    /\ log = << >>
    /\ errlog = << >>
    /\ outcome = NoOutcome

SpecConvert == InitConvert /\ [][Convert]_vars

----------------------------------------------------------------------------
(* Vocabulary of the claims about Config() *)

Loaded == loaded # "no"

\* absent (no source supplies it, or None) or the empty string
AbsentOrEmpty(f) == ~Supplied(raw, f) \/ Given(raw, f) \in {None, EMPTY}

\* a supplied string of at least one character
NonEmpty(f) == Supplied(raw, f) /\ Given(raw, f) # None /\ Len(Given(raw, f)) > 0

\* a supplied string with at least one character that is no whitespace
NonBlank(f) == NonEmpty(f) /\ Len(Strip(Given(raw, f))) > 0

ExactlyOneNonEmpty(f, g) ==
    \/ NonEmpty(f) /\ AbsentOrEmpty(g)
    \/ AbsentOrEmpty(f) /\ NonEmpty(g)

ExactlyOneNonBlank(f, g) ==
    \/ NonBlank(f) /\ AbsentOrEmpty(g)
    \/ AbsentOrEmpty(f) /\ NonBlank(g)

BothStorageEmpty ==
    AbsentOrEmpty("gcs_bucket_name") /\ AbsentOrEmpty("blob_storage_container_name")

BothDbEmpty ==
    AbsentOrEmpty("cloud_sql_instance_connection_name")
    /\ AbsentOrEmpty("graph_db_connection_string")

\* the fields outside the storage and database pairs are acceptable
OtherFieldsValid ==
    /\ \A f \in SymbolApiFields : NonBlank(f)
    /\ \/ ~Supplied(raw, "graph_db_type")
       \/ Lower(Given(raw, "graph_db_type")) \in SupportedDbTypes

TargetFields == {"gcs_bucket_name", "blob_storage_container_name",
                 "cloud_sql_instance_connection_name", "graph_db_connection_string"}

FailsWithConfigurationError ==
    loaded = "error"
    /\ \E e \in errors : e.loc = "__root__" /\ e.names \subseteq TargetFields

\* C1 as stated: validation fails when both storage fields or both database
\* fields are absent or empty, and succeeds when exactly one non-empty storage
\* field and exactly one non-empty database field are supplied (rest valid).
C1_AsStated ==
    Loaded =>
        /\ (BothStorageEmpty \/ BothDbEmpty) => FailsWithConfigurationError
        /\ ( /\ ExactlyOneNonEmpty("gcs_bucket_name", "blob_storage_container_name")
             /\ ExactlyOneNonEmpty("cloud_sql_instance_connection_name",
                                   "graph_db_connection_string")
             /\ OtherFieldsValid ) => loaded = "ok"

\* C1 amended: validation fails when both storage fields or both database
\* fields are absent or empty, and succeeds when exactly one storage field and
\* exactly one database field hold a character that is no whitespace, the other
\* field of each pair being absent or empty (rest valid).
C1_StorageAndDbRequired ==
    Loaded =>
        /\ (BothStorageEmpty \/ BothDbEmpty) => FailsWithConfigurationError
        /\ ( /\ ExactlyOneNonBlank("gcs_bucket_name", "blob_storage_container_name")
             /\ ExactlyOneNonBlank("cloud_sql_instance_connection_name",
                                   "graph_db_connection_string")
             /\ OtherFieldsValid ) => loaded = "ok"

\* a database-less configuration with a storage target was rejected
C1_Witness ==
    /\ FailsWithConfigurationError
    /\ BothDbEmpty
    /\ NonBlank("gcs_bucket_name")
    /\ OtherFieldsValid

\* C2 as stated: a configuration with both storage fields non-empty, or with
\* both database fields non-empty, is rejected.
C2_AsStated ==
    ( /\ Loaded
      /\ \/ NonEmpty("gcs_bucket_name") /\ NonEmpty("blob_storage_container_name")
         \/ NonEmpty("cloud_sql_instance_connection_name")
            /\ NonEmpty("graph_db_connection_string") )
    => loaded = "error"

\* C2 amended: validation enforces "at least one": a configuration in which
\* both storage fields and both database fields are supplied (holding a
\* character that is no whitespace) is accepted when the rest is valid, and so is
\* one with both fields of one pair and one field of the other.
C2_BothAccepted ==
    ( /\ Loaded
      /\ NonBlank("gcs_bucket_name") \/ NonBlank("blob_storage_container_name")
      /\ NonBlank("cloud_sql_instance_connection_name")
         \/ NonBlank("graph_db_connection_string")
      /\ OtherFieldsValid )
    => loaded = "ok"

\* a configuration naming both storage targets and both database targets loaded
C2_Witness ==
    /\ loaded = "ok"
    /\ NonBlank("gcs_bucket_name") /\ NonBlank("blob_storage_container_name")
    /\ NonBlank("cloud_sql_instance_connection_name")
    /\ NonBlank("graph_db_connection_string")

\* C3 as stated: for symbol_detection_api and symbol_detection_api_bearer_token,
\* an absent, empty or whitespace-only value makes Config() fail with an error
\* naming the field, and no Config object holds an empty value for either.
C3_AsStated ==
    Loaded =>
        \A f \in SymbolApiFields :
            /\ ~NonBlank(f) =>
                   loaded = "error" /\ \E e \in errors : f \in e.names
            /\ loaded = "ok" => Len(Strip(config[f])) > 0

\* the supplied value of an Optional[int] setting, None when none is supplied
SuppliedInt(f) == IF Supplied(raw, f) THEN Given(raw, f) ELSE NoInt

DetectDotted ==
    IF Supplied(raw, "detect_dotted_lines")
    THEN Given(raw, "detect_dotted_lines")
    ELSE FALSE

\* C4: with detect_dotted_lines, min_line_length is None after validation and
\* max_line_gap is the supplied value, else 10; without, min_line_length is the
\* supplied value when it is >= 10, else 10, and max_line_gap is None;
\* validating the validated values again yields the same values.
C4_DottedLineDerivation ==
    loaded = "ok" =>
        /\ DetectDotted =>
            /\ config.line_detection_hough_min_line_length = NoInt
            /\ config.line_detection_hough_max_line_gap =
                   IF SuppliedInt("line_detection_hough_max_line_gap") # NoInt
                   THEN SuppliedInt("line_detection_hough_max_line_gap")
                   ELSE SomeInt(10)
            /\ config.line_detection_hough_max_line_gap # NoInt
        /\ ~DetectDotted =>
            /\ config.line_detection_hough_min_line_length =
                   IF /\ SuppliedInt("line_detection_hough_min_line_length") # NoInt
                      /\ IntOf(SuppliedInt("line_detection_hough_min_line_length")) >= 10
                   THEN SuppliedInt("line_detection_hough_min_line_length")
                   ELSE SomeInt(10)
            /\ config.line_detection_hough_max_line_gap = NoInt
        /\ again # NoConfig => again.raised = {} /\ again.values = config

\* a min_line_length below the floor was raised, and validated a second time
C4_Witness ==
    /\ loaded = "ok"
    /\ ~DetectDotted
    /\ SuppliedInt("line_detection_hough_min_line_length") # NoInt
    /\ IntOf(SuppliedInt("line_detection_hough_min_line_length")) < 10
    /\ Supplied(raw, "line_detection_hough_max_line_gap")
    /\ again # NoConfig

\* C6 as stated: after validation graph_db_type is the lower-cased supplied
\* value and one of mssql, postgres, mysql; a supplied value whose lower-cased
\* form is none of the three fails validation; with none supplied it is mssql.
C6_AsStated ==
    /\ loaded = "ok" =>
        /\ config.graph_db_type \in SupportedDbTypes
        /\ config.graph_db_type =
               IF Supplied(raw, "graph_db_type")
               THEN Lower(Given(raw, "graph_db_type"))
               ELSE MSSQL
    /\ ( /\ Loaded
         /\ Supplied(raw, "graph_db_type")
         /\ Lower(Given(raw, "graph_db_type")) \notin SupportedDbTypes )
       => loaded = "error"

\* C6 amended: as stated for a supplied value that is not the empty string; a
\* supplied empty string is treated like no value and validates to mssql.
C6_DbTypeNormalized ==
    /\ loaded = "ok" =>
        /\ config.graph_db_type \in SupportedDbTypes
        /\ config.graph_db_type =
               IF NonEmpty("graph_db_type")
               THEN Lower(Given(raw, "graph_db_type"))
               ELSE MSSQL
    /\ ( /\ Loaded
         /\ NonEmpty("graph_db_type")
         /\ Lower(Given(raw, "graph_db_type")) \notin SupportedDbTypes )
       => loaded = "error"

\* a mixed-case kind was accepted and stored lower-cased
C6_Witness ==
    /\ loaded = "ok"
    /\ NonEmpty("graph_db_type")
    /\ Given(raw, "graph_db_type") # Lower(Given(raw, "graph_db_type"))
    /\ config.graph_db_type = POSTGRES

\* the pieces of s between commas (and its ends), by position
Pieces(s) ==
    { SubSeq(s, i, j) : <<i, j>> \in
        { p \in (1..Len(s) + 1) \X (0..Len(s)) :
            /\ p[1] <= p[2] + 1
            /\ \A k \in p[1]..p[2] : s[k] # ","
            /\ p[1] = 1 \/ s[p[1] - 1] = ","
            /\ p[2] = Len(s) \/ s[p[2] + 1] = "," } }

\* t without its leading and trailing blanks, by position
Trimmed(t) ==
    LET inner == {k \in 1..Len(t) : t[k] # " "}
    IN  IF inner = {} THEN << >>
        ELSE SubSeq(t, CHOOSE k \in inner : \A m \in inner : k <= m,
                       CHOOSE k \in inner : \A m \in inner : k >= m)

\* the trimmed, non-empty tokens of a comma-delimited string
TrimmedTokens(s) == {Trimmed(t) : t \in Pieces(s)} \ {<< >>}

NormalizedToTokens(f) ==
    ( /\ loaded = "ok"
      /\ Supplied(raw, f)
      /\ Given(raw, f).kind = "str" )
    => /\ config[f].kind = "set"
       /\ config[f].val = TrimmedTokens(Given(raw, f).val)

\* C5 as stated: for each of the five fields declared string-or-set and every
\* comma-delimited string input, the validated value is the set of the
\* trimmed, non-empty tokens of the input.
C5_AsStated == \A f \in SetFields : NormalizedToTokens(f)

\* C5, the four fields the validator is registered for: these are normalized
C5_RegisteredFields == \A f \in CommaSeparatedFields : NormalizedToTokens(f)

----------------------------------------------------------------------------
(* Vocabulary of the claims about connect() *)

Finished(t) == result[t].status \in {"raised", "returned"}

CloudCall(t) == result[t].status # "none" /\ result[t].db_type \in CloudTypes

MssqlCall(t) == result[t].status # "none" /\ result[t].db_type \in MssqlTypes

RaisedNaming(t, field) ==
    result[t].status = "raised" /\ result[t].error = ValueError({field})

\* nothing of the Cloud SQL machinery was touched
ConnectorUntouched(t) ==
    /\ _connector_instance = NoObject
    /\ created = 0
    /\ result[t].backend = "none"
    /\ result[t].via = NoObject
    /\ opened = 0

\* C7: on the postgres/mysql path a missing cloud_sql_instance_connection_name,
\* db_user or db_name (checked in this order) makes connect() raise a
\* configuration error naming the field; an empty db_password never causes a
\* failure; in the failing cases no Connector is constructed and no backend
\* connection is attempted.
C7_CloudPreconditions ==
    \A t \in threads :
        CloudCall(t) =>
            /\ ~Truthy(config.cloud_sql_instance_connection_name)
                   => RaisedNaming(t, "cloud_sql_instance_connection_name")
            /\ ( /\ Truthy(config.cloud_sql_instance_connection_name)
                 /\ ~Truthy(config.db_user) ) => RaisedNaming(t, "db_user")
            /\ ( /\ Truthy(config.cloud_sql_instance_connection_name)
                 /\ Truthy(config.db_user)
                 /\ ~Truthy(config.db_name) ) => RaisedNaming(t, "db_name")
            /\ ( /\ Truthy(config.cloud_sql_instance_connection_name)
                 /\ Truthy(config.db_user)
                 /\ Truthy(config.db_name) ) => result[t].error.type # "ValueError"
            /\ "db_password" \notin result[t].error.names
            /\ result[t].error.type = "ValueError" => ConnectorUntouched(t)

\* a mysql call without cloud_sql_instance_connection_name was refused
C7_Witness ==
    \E t \in threads :
        /\ result[t].db_type = MYSQL
        /\ config.cloud_sql_instance_connection_name = None
        /\ ~Truthy(config.db_password)
        /\ RaisedNaming(t, "cloud_sql_instance_connection_name")

\* a postgres/mysql call whose settings pass the checks of connect()
PassesChecks(t) == CloudCall(t) /\ CloudConfigError(config) = {}

SingletonUsed ==
    /\ created <= 1
    /\ \A t \in threads :
           /\ (CloudCall(t) /\ result[t].backend = "connector")
                  => /\ created = 1
                     /\ _connector_instance = Object(1)
                     /\ result[t].via = Object(1)
           /\ MssqlCall(t)
                  => /\ created = 0
                     /\ _connector_instance = NoObject
                     /\ result[t].via = NoObject
                     /\ result[t].backend \in {"none", "pyodbc"}

\* a successful mssql call hands out one connection, a new one
OneNewConnection ==
    \A t \in threads :
        ( /\ pc[t] = "connect_mssql"
          /\ pc'[t] = "idle"
          /\ result'[t].status = "returned" )
        => /\ opened' = opened + 1
           /\ result'[t].conn = Object(opened')
           /\ \A u \in threads : result[u].conn # result'[t].conn

\* C8 as stated: the Connector is constructed on the first postgres/mysql call
\* that passes the configuration checks, at most once, and every later such
\* call uses that object; an mssql call never constructs or uses it.
C8_AsStated ==
    /\ SingletonUsed
    /\ \A t \in threads :
           (PassesChecks(t) /\ Finished(t)) => _connector_instance = Object(1)

\* C8 amended: the Connector is constructed on the first postgres/mysql call
\* that passes the configuration checks and can import the connector library,
\* at most once, and every later such call uses that object (also after a
\* failed backend connection); an mssql call never constructs or uses it and,
\* when it succeeds, opens exactly one new connection.
C8_ConnectorSingleton ==
    /\ [](/\ SingletonUsed
          /\ \A t \in threads :
                 (PassesChecks(t) /\ Finished(t) /\ env.connector)
                     => _connector_instance = Object(1))
    /\ [][OneNewConnection]_vars

\* the third call of a process connected through the Connector of the first
C8_Witness ==
    /\ calls = MaxCalls
    /\ created = 1
    /\ \E t \in threads :
           /\ result[t].status = "returned"
           /\ result[t].via = Object(1)
           /\ result[t].conn = Object(1)
           /\ opened = 1

\* C9 as stated: however the threads' first postgres/mysql calls interleave,
\* the Connector is created at most once and all callers connect through the
\* same Connector.
C9_AsStated ==
    /\ created <= 1
    /\ \A t, u \in threads :
           (result[t].backend = "connector" /\ result[u].backend = "connector")
               => result[t].via = result[u].via

ConfigurationErrors ==
    {ValueError({f}) : f \in {"cloud_sql_instance_connection_name", "db_user",
                              "db_name", "graph_db_connection_string",
                              "graph_db_type"}}

MissingDependencyErrors ==
    {MissingDependency(lib) : lib \in {"pyodbc", "cloud-sql-python-connector"}}

\* C10: a failed connect() raises exactly one of: a missing-dependency error
\* (the import failed), a configuration error (a setting is missing), or the
\* error the backend's connect raised, which reaches the caller unmodified;
\* a backend failure is never swallowed.
C10_FailureClassification ==
    \A t \in threads :
        /\ result[t].status = "raised" =>
            /\ \/ /\ result[t].error \in ConfigurationErrors
                  /\ result[t].error \notin MissingDependencyErrors \cup BackendErrors
                  /\ result[t].backend = "none"
                  /\ \A f \in result[t].error.names :
                         f = "graph_db_type" \/ ~Truthy(config[f])
               \/ /\ result[t].error \in MissingDependencyErrors
                  /\ result[t].error \notin ConfigurationErrors \cup BackendErrors
                  /\ result[t].backend = "none"
                  /\ IF MssqlCall(t)
                     THEN result[t].error.names = {"pyodbc"} /\ ~env.pyodbc
                     ELSE result[t].error.names = {"cloud-sql-python-connector"}
                          /\ ~env.connector
               \/ /\ result[t].error \in BackendErrors
                  /\ result[t].error \notin ConfigurationErrors
                                             \cup MissingDependencyErrors
                  /\ result[t].backend # "none"
            /\ result[t].backend # "none" => result[t].error = result[t].backend_raised
        /\ result[t].backend_raised # NoError =>
            /\ result[t].status = "raised"
            /\ result[t].conn = NoObject
        /\ result[t].status = "returned" =>
            /\ result[t].error = NoError
            /\ result[t].conn # NoObject

\* the Connector's connect raised and the caller got that very error
C10_Witness ==
    \E t \in threads :
        /\ result[t].status = "raised"
        /\ result[t].backend = "connector"
        /\ result[t].backend_raised \in BackendErrors
        /\ result[t].error = result[t].backend_raised

----------------------------------------------------------------------------
(* Claims about the BlobStorageClient *)

StorageOps == {"upload_bytes", "download_bytes", "blob_exists"}

Returned(op) == last_op.op = op /\ last_op.status = "returned"

RaisedError(op, e) ==
    last_op.op = op /\ last_op.status = "raised" /\ last_op.error = e

FailedUninitialized ==
    last_op.status = "raised" /\ last_op.error = NotInitializedError

\* C11: a call of upload_bytes, download_bytes or blob_exists made while no
\* init() has returned raises the 'not initialized' error without sending a
\* request to the storage service, and nothing was ever uploaded then; a call
\* made after an init() has returned never raises the 'not initialized' error,
\* whatever was called in between (a failed init() included).
C11_StorageLifecycle ==
    /\ ~ready => uploaded = EmptyMap
    /\ last_op.op \in StorageOps =>
           IF ready
           THEN ~FailedUninitialized
           ELSE FailedUninitialized /\ last_op.backend = {}

\* an existence check that returns after a later init() failed on a deleted
\* bucket
C11_Witness ==
    /\ ready
    /\ _client[1] # _bucket[1]
    /\ Returned("blob_exists")

\* the objects of the bucket the client is bound to
BoundObjects == buckets[_bucket[2]]

\* the code points of well-formed UTF-8 bytes below U+0800, <<-1>> for others
RECURSIVE Utf8Decode(_)
Utf8Decode(b) ==
    IF b = << >> THEN << >>
    ELSE IF b[1] < 128 THEN <<b[1]>> \o Utf8Decode(Tail(b))
    ELSE IF Len(b) >= 2 /\ b[1] \in 192..223 /\ b[2] \in 128..191
    THEN <<(b[1] - 192) * 64 + (b[2] - 128)>> \o Utf8Decode(Tail(Tail(b)))
    ELSE <<-1>>

\* the stored bytes are the payload: the same bytes, or the UTF-8 form of the str
HoldsPayload(stored, payload) ==
    IF payload.type = "bytes" THEN stored = payload.data
    ELSE Utf8Decode(stored) = payload.data

\* what a bucket holds when only uploads have changed it
OnlyUploadsWrote(b) ==
    LET mine == IF _bucket # NoObject /\ _bucket[2] = b THEN DOMAIN uploaded ELSE {}
    IN  /\ DOMAIN buckets[b] = DOMAIN InitialObjects(b) \cup mine
        /\ \A n \in DOMAIN buckets[b] :
               IF n \in mine THEN HoldsPayload(buckets[b][n], uploaded[n])
               ELSE buckets[b][n] = InitialObjects(b)[n]

\* C12 as stated: after an upload to n returned, blob_exists(n) returns True and
\* download_bytes(n) returns the payload of the latest upload to n.
C12_AsStated ==
    \A n \in DOMAIN uploaded :
        /\ Returned("blob_exists") /\ last_op.name = n => last_op.exists
        /\ Returned("download_bytes") /\ last_op.name = n =>
               Bytes(last_op.bytes) = uploaded[n]

\* C12: on a client whose init() has returned, every bucket holds what it held
\* at first plus, in the bound bucket, for every name uploaded to, the bytes of
\* the latest payload uploaded to it (the payload itself when it is bytes, its
\* UTF-8 encoding when it is a str), so that no download_bytes or blob_exists
\* call changed any object; blob_exists(n) returns whether the bound bucket holds
\* n, which is True after an upload to n; download_bytes(n) returns the bytes
\* held for n, and raises FileNotFoundError exactly when the bucket does not
\* hold n.
C12_UploadThenRead ==
    /\ \A b \in DOMAIN buckets : OnlyUploadsWrote(b)
    /\ ready =>
        /\ DOMAIN uploaded \subseteq DOMAIN BoundObjects
        /\ Returned("blob_exists") =>
               last_op.exists = (last_op.name \in DOMAIN BoundObjects)
        /\ Returned("download_bytes") =>
               /\ last_op.name \in DOMAIN BoundObjects
               /\ last_op.bytes = BoundObjects[last_op.name]
        /\ last_op.op = "download_bytes" /\ last_op.name \notin DOMAIN BoundObjects =>
               RaisedError("download_bytes", "FileNotFoundError")
        /\ RaisedError("download_bytes", "FileNotFoundError") =>
               last_op.name \notin DOMAIN BoundObjects

\* a str was uploaded to a name and a download of that name returned
C12_Witness ==
    /\ Returned("download_bytes")
    /\ last_op.name \in DOMAIN uploaded
    /\ uploaded[last_op.name].type = "str"

\* C20 as stated: the client handle and the bound bucket are both unset, or
\* both set by the same init() call.
C20_AsStated ==
    \/ _client = NoObject /\ _bucket = NoObject
    \/ _client # NoObject /\ _bucket # NoObject /\ _client[1] = _bucket[1]

----------------------------------------------------------------------------
(* Claims about run_inferencing *)

OcrFailed == frame.ocr_error.type # "none"

Entries(name) == {i \in 1..Len(log) : log[i].stage = name}

\* C13: when the OCR step fails, because the vision library is not installed,
\* because the API call raises or because the response carries an error
\* message, run_inferencing raises an HTTPException with status 500 and the one
\* fixed detail text, whatever the underlying error says; the call is over, no
\* response exists, and nothing but the pre-processing and the OCR call was run.
\* No other failure makes the call raise.
C13_OcrFailure ==
    /\ OcrFailed =>
           /\ stage = "done"
           /\ outcome.status = "raised"
           /\ outcome.error =
                  [type |-> "HTTPException", status_code |-> 500,
                   detail |-> "There was an internal issue performing OCR on the image."]
           /\ outcome.response = << >>
           /\ frame.inference_response = << >>
           /\ \A i \in 1..Len(log) : log[i].stage \in {"preprocess", "ocr"}
    /\ outcome.status = "raised" => OcrFailed

\* the API call raised after the image was pre-processed
C13_Witness ==
    /\ OcrFailed
    /\ frame.ocr_error.type = "GoogleAPIError"
    /\ Entries("preprocess") # {}
    /\ outcome.status = "raised"

StageOrder ==
    <<"preprocess", "ocr", "convert", "correlate", "assemble", "filter", "render",
      "write">>

StageRank(name) == CHOOSE r \in 1..Len(StageOrder) : StageOrder[r] = name

\* t is the prefixes lower-cased, each as often as it occurs, in sorted order
IsLoweredSortedTuple(t, prefixes) ==
    /\ Len(t) = Cardinality(prefixes)
    /\ \A p \in prefixes :
           Cardinality({i \in 1..Len(t) : t[i] = Lower(p)})
               = Cardinality({q \in prefixes : Lower(q) = Lower(p)})
    /\ \A i \in 1..(Len(t) - 1) : StrLeq(t[i], t[i + 1])

\* C14: the stages of a run_inferencing call run in the order pre-processing,
\* OCR, conversion, correlation, response assembly, filtering, rendering, image
\* writes: no stage runs before every earlier stage but the optional
\* pre-processing has run, and none but the rendering and the writing, with
\* their up to two calls each, runs twice. The pre-processing runs exactly when
\* enable_preprocessing_text_detection is set, and the OCR gets the
\* pre-processed image then and the raw image otherwise; the conversion gets all
\* OCR results; the correlation is called once, with all text regions and the
\* sorted tuple of the lower-cased prefixes; a call that returns has run every
\* stage up to the rendering.
C14_StageOrder ==
    /\ \A i, j \in 1..Len(log) :
           i < j =>
               /\ StageRank(log[i].stage) <= StageRank(log[j].stage)
               /\ log[i].stage = log[j].stage => log[i].stage \in {"render", "write"}
    /\ \A i \in 1..Len(log) :
           \A r \in 2..(StageRank(log[i].stage) - 1) : Entries(StageOrder[r]) # {}
    /\ Cardinality(Entries("render")) <= 2
    /\ Cardinality(Entries("write")) <= 2
    /\ \A i \in Entries("ocr") :
           /\ Entries("preprocess") # {} <=> args.config.enable_preprocessing_text_detection
           /\ log[i].image = IF args.config.enable_preprocessing_text_detection
                             THEN <<"preprocessed", args.image>> ELSE args.image
    /\ \A i \in Entries("preprocess") : log[i].image = args.image
    /\ \A i \in Entries("convert") :
           log[i].results = frame.text_detection_inference_results
    /\ \A i \in Entries("correlate") :
           /\ log[i].text_details = frame.text_details
           /\ Len(log[i].text_details) = Len(frame.text_detection_inference_results)
           /\ IsLoweredSortedTuple(log[i].prefixes, args.symbol_label_prefixes_with_text)
    /\ outcome.status = "returned" =>
           \A r \in 2..(Len(StageOrder) - 1) : Entries(StageOrder[r]) # {}

\* a call that ran every stage, with two renderings and two writes, and whose
\* prefixes had to be lower-cased and sorted
C14_Witness ==
    /\ outcome.status = "returned"
    /\ Cardinality(Entries("render")) = 2
    /\ Cardinality(Entries("write")) = 2
    /\ Len(frame.symbol_label_prefixes_with_text_lowered_tuple) = 3
    /\ frame.symbol_label_prefixes_with_text_lowered_tuple[1] = <<"a", "b">>

\* box is the min/max envelope of the points
IsEnvelope(box, points) ==
    LET xs == {p[1] : p \in points}
        ys == {p[2] : p \in points}
    IN  /\ box[1] \in xs /\ \A x \in xs : box[1] <= x
        /\ box[2] \in ys /\ \A y \in ys : box[2] <= y
        /\ box[3] \in xs /\ \A x \in xs : x <= box[3]
        /\ box[4] \in ys /\ \A y \in ys : y <= box[4]

\* C15: _convert_text_detection_to_text_details yields one text region per
\* detection, in input order, with the detection's text; the box it hands to
\* normalize_coordinates, with the image height and width, is the envelope of
\* the first 4 vertices when there are 4 or more, the envelope of all vertices
\* when there are 1 to 3, and (0,0,0,0) when there is none; in that box
\* topX <= bottomX and topY <= bottomY.
C15_PolygonConversion ==
    stage = "correlate" =>
        LET detections == frame.text_detection_inference_results
            regions == frame.text_details
        IN  /\ Len(regions) = Len(detections)
            /\ \A i \in 1..Len(detections) :
                   LET polygon == detections[i][2]
                       box == regions[i].box.of
                   IN  /\ regions[i].text = detections[i][1]
                       /\ regions[i].box.height = args.symbols.image_details.height
                       /\ regions[i].box.width = args.symbols.image_details.width
                       /\ Len(polygon) >= 4 =>
                              IsEnvelope(box, {polygon[k] : k \in 1..4})
                       /\ Len(polygon) \in 1..3 =>
                              IsEnvelope(box, {polygon[k] : k \in 1..Len(polygon)})
                       /\ Len(polygon) = 0 => box = <<0, 0, 0, 0>>
                       /\ box[1] <= box[3]
                       /\ box[2] <= box[4]

\* two detections of different texts were converted, the first of more than 4
\* vertices with its fifth vertex left of the box, the second of 2 vertices
C15_Witness ==
    /\ stage = "correlate"
    /\ Len(frame.text_details) = 2
    /\ frame.text_details[1].text # frame.text_details[2].text
    /\ Len(frame.text_detection_inference_results[1][2]) > 4
    /\ frame.text_detection_inference_results[1][2][5][1] < frame.text_details[1].box.of[1]
    /\ Len(frame.text_detection_inference_results[2][2]) = 2

\* the record belongs to the visualization subset
InSubset(record) ==
    /\ record.text_associated # None
    /\ ~does_string_contain_only_one_number_or_one_fraction(record.text_associated)
    /\ \E p \in args.symbol_label_prefixes_with_text :
           /\ Len(p) <= Len(record.label)
           /\ Lower(SubSeq(record.label, 1, Len(p))) = Lower(p)

\* how many of the first i records belong to the subset
SubsetSize(list, i) == Cardinality({j \in 1..i : InSubset(list[j])})

\* C16: once the filter has run, the visualization subset consists of exactly
\* the association records whose text is not None, is not one number or one
\* fraction, and whose lower-cased label starts with a lower-cased expected
\* prefix, in the correlator's order; ids, boxes, labels and validity flags have
\* the subset's length and hold at each index the id, box and text of the
\* subset's record at that index and 1 if that text has a letter and a digit,
\* else 0; the first rendering is made from these four lists.
C16_VisualizationFilter ==
    stage \in {"render", "write", "done"} /\ outcome.status # "raised" =>
        LET all == frame.text_and_symbols_associated_list
            subset == frame.pruned_text_and_symbols_associated_list
        IN  /\ Len(subset) = SubsetSize(all, Len(all))
            /\ \A i \in 1..Len(all) :
                   InSubset(all[i]) => subset[SubsetSize(all, i)] = all[i]
            /\ Len(frame.ids) = Len(subset)
            /\ Len(frame.bounding_boxes) = Len(subset)
            /\ Len(frame.labels) = Len(subset)
            /\ Len(frame.valid_bit_array) = Len(subset)
            /\ \A k \in 1..Len(subset) :
                   /\ frame.ids[k] = subset[k].id
                   /\ frame.bounding_boxes[k] = subset[k].box
                   /\ frame.labels[k] = subset[k].text_associated
                   /\ frame.valid_bit_array[k] =
                          IF does_string_contain_at_least_one_number_and_one_letter(
                                 subset[k].text_associated)
                          THEN 1 ELSE 0
            /\ \A i \in Entries("render") :
                   (\A j \in Entries("render") : i <= j) =>
                       /\ log[i].image.ids = frame.ids
                       /\ log[i].image.bounding_boxes = frame.bounding_boxes
                       /\ log[i].image.labels = frame.labels
                       /\ log[i].image.valid_bit_array = frame.valid_bit_array

\* of two records in the subset the first has letters only, the second a letter
\* and a digit, and a record without text was dropped
C16_Witness ==
    /\ stage = "done"
    /\ Len(frame.text_and_symbols_associated_list) > Len(frame.ids)
    /\ \E i \in 1..Len(frame.text_and_symbols_associated_list) :
           frame.text_and_symbols_associated_list[i].text_associated = None
    /\ Len(frame.ids) = 1
    /\ frame.valid_bit_array = <<1>>

WriteFailed == \E i \in Entries("write") : log[i].result # "written"

\* C17 as stated: when a debug-image write fails, run_inferencing still returns
\* the response it assembled, and the failure is logged.
C17_AsStated ==
    stage = "done" /\ WriteFailed =>
        /\ outcome.status = "returned"
        /\ outcome.response = frame.inference_response
        /\ \E k \in 1..Len(errlog) :
               errlog[k] = "Error saving text detection output images"

\* C18: the response a run_inferencing call returns has image_url = pid_id
\* followed by ".png", the image_details and bounding_box_inclusive of the
\* symbol detection results, all_text_list = the text regions, one per OCR
\* result, and text_and_symbols_associated_list = the list the correlator
\* returned, whatever the filter kept and whatever the debug settings are.
C18_ResponseContent ==
    outcome.status = "returned" =>
        /\ outcome.response.image_url = args.pid_id \o <<".", "p", "n", "g">>
        /\ outcome.response.image_details = args.symbols.image_details
        /\ outcome.response.bounding_box_inclusive = args.symbols.bounding_box_inclusive
        /\ outcome.response.all_text_list = frame.text_details
        /\ Len(outcome.response.all_text_list)
               = Len(frame.text_detection_inference_results)
        /\ \A i \in Entries("correlate") :
               outcome.response.text_and_symbols_associated_list = log[i].returned
        /\ Entries("correlate") # {}

\* a response whose two association records the filter both dropped
C18_Witness ==
    /\ outcome.status = "returned"
    /\ Len(outcome.response.text_and_symbols_associated_list) = 2
    /\ frame.pruned_text_and_symbols_associated_list = << >>
    /\ Len(outcome.response.all_text_list) = 1

----------------------------------------------------------------------------
(* Claim about Config() and connect() together *)

\* C19 as stated: a configuration that Config() accepted has, for graph_db_type
\* postgres or mysql, a non-empty cloud_sql_instance_connection_name, db_user
\* and db_name, and for mssql a non-empty graph_db_connection_string; its kind is
\* one connect() supports; and no connect() call raises a configuration error.
C19_AsStated ==
    loaded = "ok" =>
        /\ DbType(config) \in CloudTypes =>
               /\ Truthy(config.cloud_sql_instance_connection_name)
               /\ Truthy(config.db_user)
               /\ Truthy(config.db_name)
        /\ DbType(config) \in MssqlTypes => Truthy(config.graph_db_connection_string)
        /\ DbType(config) \in CloudTypes \cup MssqlTypes
        /\ \A t \in threads :
               result[t].status = "raised" => result[t].error.type # "ValueError"

====
